---- MODULE Spec2Model ----
(***************************************************************************)
(* Model of extract-orders.py: extract_orders() walks the order boxes of   *)
(* a region file, builds a pixel mask for each order from two detectors,   *)
(* removes the tilt of the order by rolling groups of columns, takes a     *)
(* masked mean wavelength per column, trims and writes two rasters.        *)
(*                                                                         *)
(* Rasters are records [ny, nx, v] with v a function on                     *)
(* (0..ny-1) \X (0..nx-1); a raster with ny = 0 is an empty array that     *)
(* still knows its number of columns, as a numpy array of shape (0, nx).   *)
(* Pixel values are integers.  tan(radians(tilt)) is a rational            *)
(* tan / TanDen.  A quotient is kept as the pair of its terms.             *)
(***************************************************************************)
EXTENDS Integers, Sequences, FiniteSets, TLC

\* ---------------------------------------------------------------- bounds
H == 5            \* rows of the full frame
W == 3            \* columns of the full frame
MaxOrders == 2    \* boxes in the region file
TanDen == 2       \* slopes are multiples of 1/TanDen
MaxTanNum == 3    \* largest slope is MaxTanNum/TanDen

\* ------------------------------------------------------ program constants
ordermax == 72
wavmin == 1000
wavmax == 10000
CoreHeight == 8
WideMargin == 3

\* --------------------------------------------------------------- rasters
Pix(ny, nx) == (0..(ny - 1)) \X (0..(nx - 1))

NoArr == [ny |-> 0, nx |-> 0, v |-> [p \in {} |-> 0]]

Abs(x) == IF x < 0 THEN -x ELSE x
MinOf(S) == CHOOSE x \in S : \A y \in S : x <= y
MaxOf(S) == CHOOSE x \in S : \A y \in S : x >= y

\* a & b on two boolean rasters of one shape
MaskAnd(a, b) ==
    [ny |-> a.ny, nx |-> a.nx, v |-> [p \in Pix(a.ny, a.nx) |-> a.v[p] /\ b.v[p]]]

\* a == k on an integer raster
MaskEq(a, k) ==
    [ny |-> a.ny, nx |-> a.nx, v |-> [p \in Pix(a.ny, a.nx) |-> a.v[p] = k]]

\* data[mask]: the values of data at the true pixels of mask
SelectedPix(mask) == {q \in DOMAIN mask.v : mask.v[q]}
Select(data, mask) == {data.v[p] : p \in SelectedPix(mask)}

\* ------------------------------------------------------------ input files
\* The science image: every pixel has its own value.
ImagePixel(i, j) == 10 * i + j + 1

\* The wavelength image.  Even rows are order traces, each either without a
\* valid wavelength, valid over its whole length, or valid at its two ends
\* only; the odd rows between them are invalid, or valid in column 0 only,
\* which bridges the traces above and below.
RowKinds == {"none", "full", "split"}
EvenRows == {i \in 0..(H - 1) : i % 2 = 0}

ValidPixel(kinds, bridge, i, j) ==
    IF i % 2 = 0
    THEN kinds[i] = "full" \/ (kinds[i] = "split" /\ j \in {0, W - 1})
    ELSE bridge /\ j = 0

WavPixel(kinds, bridge, i, j) ==
    IF ValidPixel(kinds, bridge, i, j)
    THEN IF i = 0 /\ j = 0 THEN wavmin
         ELSE IF i = H - 1 /\ j = W - 1 THEN wavmax
         ELSE wavmin + 100 * i + 10 * j + i * j
    ELSE IF (i + j) % 2 = 0 THEN wavmin - 1 ELSE wavmax + 1

\* ------------------------------------------------------- box2label, names
Digits == <<"0", "1", "2", "3", "4", "5", "6", "7", "8", "9">>
IsDigit(c) == \E d \in 1..10 : Digits[d] = c
DigitVal(c) == (CHOOSE d \in 1..10 : Digits[d] = c) - 1

\* A token is the sequence of its characters.
K(a, b) == <<a, b>>

box2label ==
    K("5","1") :> 24 @@ K("5","2") :> 23 @@ K("5","3") :> 22 @@ K("5","4") :> 21 @@
    K("5","5") :> 20 @@ K("5","6") :> 19 @@ K("5","7") :> 18 @@
    K("5","8") :> 17 @@ K("5","9") :> 16 @@ K("6","0") :> 15 @@ K("6","1") :> 14 @@
    K("6","2") :> 14 @@ K("6","3") :> 14 @@ K("6","4") :> 13 @@
    K("6","5") :> 12 @@ K("6","6") :> 11 @@ K("6","7") :> 10 @@ K("6","8") :> 9 @@
    K("6","9") :> 8 @@ K("7","0") :> 7 @@ K("7","1") :> 6 @@
    K("7","2") :> 5 @@ K("7","3") :> 4 @@ K("7","4") :> 3 @@ K("7","5") :> 2 @@
    K("7","6") :> 1

\* int(token): an optional sign, then one or more decimal digits
IsIntToken(t) ==
    LET body == IF Len(t) > 0 /\ t[1] \in {"+", "-"} THEN Tail(t) ELSE t
    IN  Len(body) > 0 /\ \A n \in 1..Len(body) : IsDigit(body[n])

RECURSIVE DigitsValue(_)
DigitsValue(ds) ==
    IF Len(ds) = 0 THEN 0
    ELSE 10 * DigitsValue(SubSeq(ds, 1, Len(ds) - 1)) + DigitVal(ds[Len(ds)])

IntOf(t) ==
    IF t[1] = "-" THEN -DigitsValue(Tail(t))
    ELSE IF t[1] = "+" THEN DigitsValue(Tail(t))
    ELSE DigitsValue(t)

\* The regions of the region file: what each box contributes to the run.
\* cy2, cx2 are twice the centre row and column, h and w the height and
\* width in pixels, tan the numerator of the slope, text the tokens of the
\* text attribute as text.split() returns them.
ORDER == <<"O", "r", "d", "e", "r">>

OrderNames ==
    { <<>>,
      <<ORDER, K("7","6")>>, <<ORDER, K("7","3")>>, <<ORDER, K("7","2")>>,
      <<K("7","1")>>, <<ORDER, K("7","7")>>, <<ORDER, K("7","x")>>,
      <<ORDER, <<"+", "7", "2">>>> }

Boxes ==
    { [cy2 |-> 0, h |-> 1],                                \* on the first row
      [cy2 |-> 2 * (H - 1), h |-> 1],                      \* on the last row
      [cy2 |-> -2 * (CoreHeight + WideMargin), h |-> 1],   \* outside the frame
      [cy2 |-> H - 1, h |-> 0] }                           \* malformed: no height

TanNums == (-1)..MaxTanNum

Regions ==
    { [cy2 |-> b.cy2, h |-> b.h, cx2 |-> W - 1, w |-> W, tan |-> t, text |-> n] :
        b \in Boxes, t \in TanNums, n \in OrderNames }

NoRegion == [cy2 |-> 0, h |-> 0, cx2 |-> 0, w |-> 0, tan |-> 0, text |-> <<>>]

\* ------------------------------------------------------------ mask builder
\* shrink_box(r, h): the region with its height replaced
shrink_box(r, h) == [r EXCEPT !.h = h]

\* filter.mask(shape) of a box region: the pixels whose centre is inside it.
\* The box is rasterised upright: its angle enters the run as the tilt of
\* line 51 only.
RegionMask(r) ==
    [ny |-> H, nx |-> W,
     v |-> [p \in Pix(H, W) |->
              Abs(2 * p[1] - r.cy2) < r.h /\ Abs(2 * p[2] - r.cx2) < r.w]]

\* dilate_mask(mask, margin): dilation by a square of side 2*margin + 1
dilate_mask(mask, margin) ==
    [ny |-> mask.ny, nx |-> mask.nx,
     v |-> [p \in Pix(mask.ny, mask.nx) |->
              \E q \in SelectedPix(mask) :
                  Abs(p[1] - q[1]) <= margin /\ Abs(p[2] - q[2]) <= margin]]

\* ------------------------------------------------------------------ labeler
\* wavmask = (data >= wavmin) & (data <= wavmax)
ValidWavelengths(data, lo, hi) ==
    [ny |-> data.ny, nx |-> data.nx,
     v |-> [p \in Pix(data.ny, data.nx) |-> data.v[p] >= lo /\ data.v[p] <= hi]]

\* structure = ones((3,3)): the eight neighbours
Adjacent(p, q) == Abs(p[1] - q[1]) <= 1 /\ Abs(p[2] - q[2]) <= 1

\* One pass over the raster in scan order: every valid pixel takes the
\* smallest mark among itself and its valid neighbours.  marks is the tuple
\* of the marks in scan order, 0 on the background.
NeighbourMarks(marks, k, nx) ==
    {marks[j] : j \in {i \in 1..Len(marks) :
        /\ marks[i] # 0
        /\ Adjacent(<<(i - 1) \div nx, (i - 1) % nx>>, <<(k - 1) \div nx, (k - 1) % nx>>)}}

RECURSIVE SpreadMarks(_, _, _)
SpreadMarks(marks, k, nx) ==
    IF k = 0 THEN <<>>
    ELSE Append(SpreadMarks(marks, k - 1, nx),
                IF marks[k] = 0 THEN 0 ELSE MinOf(NeighbourMarks(marks, k, nx)))

RECURSIVE SettleMarks(_, _)
SettleMarks(marks, nx) ==
    LET next == SpreadMarks(marks, Len(marks), nx)
    IN  IF next = marks THEN marks ELSE SettleMarks(next, nx)

RECURSIVE ScanMarks(_, _)
ScanMarks(mask, k) ==
    IF k = 0 THEN <<>>
    ELSE Append(ScanMarks(mask, k - 1),
                IF mask.v[<<(k - 1) \div mask.nx, (k - 1) % mask.nx>>] THEN k ELSE 0)

\* every pixel marked with the scan position of the first pixel of its
\* connected component
ComponentMarks(mask) == SettleMarks(ScanMarks(mask, mask.ny * mask.nx), mask.nx)

\* ndi.label(mask, structure): components numbered from 1 in the order a
\* row-by-row scan meets them; 0 is the background
NdiLabel(mask) ==
    LET marks == ComponentMarks(mask)
        firsts == {marks[k] : k \in 1..Len(marks)} \ {0}
    IN  [ny |-> mask.ny, nx |-> mask.nx,
         v |-> [p \in Pix(mask.ny, mask.nx) |->
                  Cardinality({f \in firsts : f <= marks[p[1] * mask.nx + p[2] + 1]})]]

NdiLabelCount(mask) ==
    Cardinality({ComponentMarks(mask)[k] : k \in 1..(mask.ny * mask.nx)} \ {0})

\* ------------------------------------------------------- identity resolver
NoError == [kind |-> "none", line |-> 0]

\* label = box2label[ordername.split()[-1]] and then
\* iorder = int(ordername.split()[-1]); no token raises IndexError, a missing
\* key KeyError, a token int() rejects ValueError
ResolveOrderParseFirst(text) ==
    IF Len(text) = 0
    THEN [err |-> [kind |-> "IndexError", line |-> 91], label |-> 0, iorder |-> 0]
    ELSE LET tok == text[Len(text)]
         IN  IF ~IsIntToken(tok)
             THEN [err |-> [kind |-> "ValueError", line |-> 91], label |-> 0, iorder |-> 0]
             ELSE IF tok \notin DOMAIN box2label
             THEN [err |-> [kind |-> "KeyError", line |-> 90], label |-> 0, iorder |-> 0]
             ELSE [err |-> NoError, label |-> box2label[tok], iorder |-> IntOf(tok)]

ResolveOrder(text) ==
    IF Len(text) = 0
    THEN [err |-> [kind |-> "IndexError", line |-> 90], label |-> 0, iorder |-> 0]
    ELSE LET tok == text[Len(text)]
         IN  IF tok \notin DOMAIN box2label
             THEN [err |-> [kind |-> "KeyError", line |-> 90], label |-> 0, iorder |-> 0]
             ELSE IF ~IsIntToken(tok)
             THEN [err |-> [kind |-> "ValueError", line |-> 91], label |-> 0, iorder |-> 0]
             ELSE [err |-> NoError, label |-> box2label[tok], iorder |-> IntOf(tok)]

\* ------------------------------------------------------ mask reconciliation
NoBox == [r0 |-> 0, r1 |-> -1, c0 |-> 0, c1 |-> -1]

\* ndi.find_objects(widemask.astype(int)): one slice pair, the enclosing
\* rectangle of the true pixels, or no object when there is none
FindMaskObjects(mask) ==
    LET S == SelectedPix(mask)
    IN  IF S = {} THEN <<>>
        ELSE << [r0 |-> MinOf({p[1] : p \in S}), r1 |-> MaxOf({p[1] : p \in S}),
                 c0 |-> MinOf({p[2] : p \in S}), c1 |-> MaxOf({p[2] : p \in S})] >>

\* a[bbox]
Crop(a, b) ==
    [ny |-> b.r1 - b.r0 + 1, nx |-> b.c1 - b.c0 + 1,
     v |-> [p \in Pix(b.r1 - b.r0 + 1, b.c1 - b.c0 + 1) |->
              a.v[<<p[1] + b.r0, p[2] + b.c0>>]]]

\* a[bbox] = part, for a view of a that is written in place
Paste(a, b, part) ==
    [a EXCEPT !.v = [p \in Pix(a.ny, a.nx) |->
        IF p[1] \in b.r0..b.r1 /\ p[2] \in b.c0..b.c1
        THEN part.v[<<p[1] - b.r0, p[2] - b.c0>>] ELSE a.v[p]]]

\* the mask of all pixels both methods say should be in this order
ReconcileStrict(i, wide, labelimage, l) ==
    IF i < ordermax THEN MaskAnd(wide, MaskEq(labelimage, l))
    ELSE MaskEq(labelimage, l)

Reconcile(i, wide, labelimage, l) ==
    IF i <= ordermax THEN MaskAnd(wide, MaskEq(labelimage, l))
    ELSE MaskEq(labelimage, l)

\* imhdu.data.copy()[bbox] is no view of the loaded raster: what is written
\* into it in place leaves the loaded raster as it is
SourceAfterRollView(data, b, rolled) == Paste(data, b, rolled)

SourceAfterRoll(data, b, rolled) == data

\* ---------------------------------------------------------------- rectifier
\* astype(int) of a quotient: the fraction is dropped, towards zero
TruncDiv(a, b) == IF a >= 0 THEN a \div b ELSE -((-a) \div b)

\* (arange(nx) * tan(radians(tilt))).astype(int)
ColumnShifts(nx, tannum) == [j \in 0..(nx - 1) |-> TruncDiv(j * tannum, TanDen)]

ShiftMax(js) == MaxOf({js[j] : j \in DOMAIN js})

\* ndi.find_objects(jshifts) on the shifts stacked over ny rows: entry k is
\* the column range of the value k, for k from 1 to the largest value, and
\* None where no column has the value; values below 1 are background
NoChunk == [none |-> TRUE, lo |-> 0, hi |-> -1]

FindShiftObjects(js) ==
    LET top == IF ShiftMax(js) < 1 THEN 0 ELSE ShiftMax(js)
    IN  [k \in 1..top |->
           LET cols == {j \in DOMAIN js : js[j] = k}
           IN  IF cols = {} THEN NoChunk
               ELSE [none |-> FALSE, lo |-> MinOf(cols), hi |-> MaxOf(cols)]]

HasGap(chunks) == \E k \in 1..Len(chunks) : chunks[k].none

\* a[chunk] = np.roll(a[chunk], shift, axis=0) on the columns lo..hi
RollColumnsDown(a, lo, hi, shift) ==
    [a EXCEPT !.v = [p \in Pix(a.ny, a.nx) |->
        IF p[2] \in lo..hi THEN a.v[<<(p[1] + shift) % a.ny, p[2]>>] ELSE a.v[p]]]

RollColumns(a, lo, hi, shift) ==
    [a EXCEPT !.v = [p \in Pix(a.ny, a.nx) |->
        IF p[2] \in lo..hi THEN a.v[<<(p[1] - shift) % a.ny, p[2]>>] ELSE a.v[p]]]

\* the loop over the chunks, from chunk k on; the shift of a chunk is
\* jshifts[chunk][0,0]; a None chunk that does not raise changes nothing
RECURSIVE RollChunks(_, _, _, _)
RollChunks(a, chunks, js, k) ==
    IF k > Len(chunks) THEN a
    ELSE IF chunks[k].none THEN RollChunks(a, chunks, js, k + 1)
    ELSE RollChunks(RollColumns(a, chunks[k].lo, chunks[k].hi, -js[chunks[k].lo]),
                    chunks, js, k + 1)

\* a quotient num / den; den = 0 gives not-a-number
Quot(num, den) == [num |-> num, den |-> den]

RECURSIVE ColumnSum(_, _, _, _)
ColumnSum(wav, mask, j, i) ==
    IF i >= wav.ny THEN 0
    ELSE wav.v[<<i, j>>] * (IF mask.v[<<i, j>>] THEN 1 ELSE 0)
         + ColumnSum(wav, mask, j, i + 1)

RECURSIVE ColumnCount(_, _, _)
ColumnCount(mask, j, i) ==
    IF i >= mask.ny THEN 0
    ELSE (IF mask.v[<<i, j>>] THEN 1 ELSE 0) + ColumnCount(mask, j, i + 1)

\* np.vstack([np.sum(wavorder*m, axis=0) / m.sum(axis=0)] * ny)
MeanWavUnmasked(wav, mask) ==
    [ny |-> wav.ny, nx |-> wav.nx,
     v |-> [p \in Pix(wav.ny, wav.nx) |->
              Quot(ColumnSum(wav, [mask EXCEPT !.v = [q \in DOMAIN mask.v |-> TRUE]], p[2], 0),
                   ColumnCount(mask, p[2], 0))]]

MeanWav(wav, mask) ==
    [ny |-> wav.ny, nx |-> wav.nx,
     v |-> [p \in Pix(wav.ny, wav.nx) |->
              Quot(ColumnSum(wav, mask, p[2], 0), ColumnCount(mask, p[2], 0))]]

\* the end of the slice a[:stop] of n rows
SliceStop(n, stop) ==
    IF stop < 0 THEN (IF n + stop < 0 THEN 0 ELSE n + stop)
    ELSE (IF stop > n THEN n ELSE stop)

\* a[:-jtrim, :]
TrimTop(a, trim) ==
    [ny |-> SliceStop(a.ny, -trim), nx |-> a.nx,
     v |-> [p \in Pix(SliceStop(a.ny, -trim), a.nx) |-> a.v[p]]]

\* -------------------------------------------------------------------- state
VARIABLES
    pc,         \* the statement extract_orders is about to run
    err,        \* the exception that ended the run, NoError while it runs
    log,        \* what the run has printed and written so far, in order
    idx,        \* orders completed, also the position of the order in hand
    kinds, bridge, \* the wavelength file the run was started on
    imdata,     \* imhdu.data
    wavdata,    \* wavhdu.data
    wavmask, labels, nlabels,
    labelsfile, \* orders-labels.fits
    region,     \* the box of the order in hand
    ordermask, widemask,
    msg1, msg2, \* which of the two messages each diagnostic printed
    label, iorder, bbox,
    imorder, wavorder, m, mm,
    count,      \* the number of good wavelength pixels printed
    jshifts, jtrim, meanwav,
    imfile, wavfile,     \* test-order<N>-im.fits, -wav.fits of the order in hand
    imcount, wavcount    \* writes of each kind, by position of the order

globals == <<kinds, bridge, imdata, wavdata, wavmask, labels, nlabels, labelsfile>>
masks == <<region, ordermask, widemask>>
ident == <<label, iorder, msg1, msg2>>
cropped == <<bbox, imorder, wavorder, m, mm, count>>
rectified == <<jshifts, jtrim, meanwav>>
files == <<imfile, wavfile, imcount, wavcount>>
vars == <<pc, err, log, idx, globals, masks, ident, cropped, rectified, files>>

ImageRaster ==
    [ny |-> H, nx |-> W, v |-> [p \in Pix(H, W) |-> ImagePixel(p[1], p[2])]]

WavRaster(ks, br) ==
    [ny |-> H, nx |-> W, v |-> [p \in Pix(H, W) |-> WavPixel(ks, br, p[1], p[2])]]

\* The state once the three input files are open (lines 46-59).
Init ==
    /\ pc = "label"
    /\ err = NoError
    /\ log = <<>>
    /\ idx = 0
    /\ kinds \in [EvenRows -> RowKinds]
    /\ bridge \in BOOLEAN
    /\ imdata = ImageRaster
    /\ wavdata = WavRaster(kinds, bridge)
    /\ wavmask = NoArr /\ labels = NoArr /\ nlabels = 0 /\ labelsfile = NoArr
    /\ region = NoRegion /\ ordermask = NoArr /\ widemask = NoArr
    /\ msg1 = "" /\ msg2 = "" /\ label = 0 /\ iorder = 0
    /\ bbox = NoBox /\ imorder = NoArr /\ wavorder = NoArr
    /\ m = NoArr /\ mm = NoArr /\ count = 0
    /\ jshifts = <<>> /\ jtrim = 0 /\ meanwav = NoArr
    /\ imfile = NoArr /\ wavfile = NoArr
    /\ imcount = [k \in 0..(MaxOrders - 1) |-> 0]
    /\ wavcount = [k \in 0..(MaxOrders - 1) |-> 0]

Raise(kind, line) ==
    /\ pc' = "error"
    /\ err' = [kind |-> kind, line |-> line]

\* lines 66-67
LabelWavelengths ==
    /\ pc = "label"
    /\ wavmask' = ValidWavelengths(wavdata, wavmin, wavmax)
    /\ labels' = NdiLabel(wavmask')
    /\ nlabels' = NdiLabelCount(wavmask')
    /\ pc' = "savelabels"
    /\ UNCHANGED <<err, log, idx, kinds, bridge, imdata, wavdata, labelsfile,
                   masks, ident, cropped, rectified, files>>

\* lines 70-73, with the label image left unwritten
WriteLabelsSkipped ==
    /\ pc = "savelabels"
    /\ pc' = "loop"
    /\ UNCHANGED <<err, log, idx, globals, masks, ident, cropped, rectified, files>>

\* lines 70-73
WriteLabels ==
    /\ pc = "savelabels"
    /\ labelsfile' = labels
    /\ log' = Append(log, "labels")
    /\ pc' = "loop"
    /\ UNCHANGED <<err, idx, kinds, bridge, imdata, wavdata, wavmask, labels, nlabels,
                   masks, ident, cropped, rectified, files>>

\* line 75, the boxes exhausted
LoopEnd ==
    /\ pc = "loop"
    /\ pc' = "done"
    /\ UNCHANGED <<err, log, idx, globals, masks, ident, cropped, rectified, files>>

\* lines 75-79: the next box, its core mask and its padded wide mask
NextOrder ==
    /\ pc = "loop"
    /\ idx < MaxOrders
    /\ \E r \in Regions :
        /\ region' = r
        /\ ordermask' = RegionMask(shrink_box(r, CoreHeight))
        /\ widemask' = dilate_mask(RegionMask(r), WideMargin)
    /\ pc' = "diag1"
    /\ UNCHANGED <<err, log, idx, globals, ident, cropped, rectified, files>>

\* lines 83-87
DiagGeometric ==
    /\ pc = "diag1"
    /\ msg1' = IF Select(wavdata, MaskAnd(ordermask, wavmask)) = {}
               THEN "novalid" ELSE "range"
    /\ log' = Append(log, "diag1")
    /\ pc' = "resolve"
    /\ UNCHANGED <<err, idx, globals, masks, label, iorder, msg2,
                   cropped, rectified, files>>

\* lines 90-91
ResolveIdentity ==
    /\ pc = "resolve"
    /\ LET res == ResolveOrder(region.text)
       IN  /\ err' = res.err
           /\ label' = res.label
           /\ iorder' = res.iorder
           /\ pc' = IF res.err = NoError THEN "diag2" ELSE "error"
           /\ log' = IF res.err = NoError THEN Append(log, "lookup") ELSE log
    /\ UNCHANGED <<idx, globals, masks, msg1, msg2, cropped, rectified, files>>

\* lines 92-98
DiagLabel ==
    /\ pc = "diag2"
    /\ msg2' = IF Select(wavdata, MaskEq(labels, label)) = {}
               THEN "novalid" ELSE "range"
    /\ log' = Append(log, "diag2")
    /\ pc' = "bbox"
    /\ UNCHANGED <<err, idx, globals, masks, label, iorder, msg1,
                   cropped, rectified, files>>

\* line 101: bbox, = ... raises ValueError unless there is just one object
FindBBox ==
    /\ pc = "bbox"
    /\ LET objs == FindMaskObjects(widemask)
       IN  IF Len(objs) = 1
           THEN /\ bbox' = objs[1]
                /\ pc' = "crop"
                /\ err' = err
           ELSE /\ bbox' = bbox
                /\ Raise("ValueError", 101)
    /\ UNCHANGED <<log, idx, globals, masks, ident, imorder, wavorder, m, mm, count,
                   rectified, files>>

\* lines 103-104
CropSources ==
    /\ pc = "crop"
    /\ imorder' = Crop(imdata, bbox)
    /\ wavorder' = Crop(wavdata, bbox)
    /\ pc' = "reconcile"
    /\ UNCHANGED <<err, log, idx, globals, masks, ident, bbox, m, mm, count,
                   rectified, files>>

\* lines 105-110
ReconcileMasks ==
    /\ pc = "reconcile"
    /\ m' = Reconcile(iorder, widemask, labels, label)
    /\ pc' = "cropmasks"
    /\ UNCHANGED <<err, log, idx, globals, masks, ident, bbox, imorder, wavorder, mm,
                   count, rectified, files>>

\* lines 111-113
CropMasks ==
    /\ pc = "cropmasks"
    /\ m' = Crop(m, bbox)
    /\ count' = Cardinality(SelectedPix(m'))
    /\ log' = Append(log, "count")
    /\ mm' = Crop(widemask, bbox)
    /\ pc' = "shifts"
    /\ UNCHANGED <<err, idx, globals, masks, ident, bbox, imorder, wavorder,
                   rectified, files>>

\* lines 118-121
ComputeShifts ==
    /\ pc = "shifts"
    /\ jshifts' = ColumnShifts(wavorder.nx, region.tan)
    /\ jtrim' = ShiftMax(jshifts')
    /\ pc' = "roll"
    /\ UNCHANGED <<err, log, idx, globals, masks, ident, cropped, meanwav, files>>

\* lines 122-128.  For a None chunk np.roll gets the whole row of shifts as
\* its shift: it raises where a shift must be one number and changes
\* nothing where it may be a sequence.  mm is a view of widemask, which the
\* roll writes through; imorder and wavorder are views of copies.
RollLoop ==
    /\ pc = "roll"
    /\ LET chunks == FindShiftObjects(jshifts)
       IN  \E raises \in (IF HasGap(chunks) THEN BOOLEAN ELSE {FALSE}) :
             IF raises
             THEN /\ Raise("Exception", 125)
                  /\ UNCHANGED <<imorder, wavorder, m, mm, widemask, imdata, wavdata>>
             ELSE /\ imorder' = RollChunks(imorder, chunks, jshifts, 1)
                  /\ wavorder' = RollChunks(wavorder, chunks, jshifts, 1)
                  /\ m' = RollChunks(m, chunks, jshifts, 1)
                  /\ mm' = RollChunks(mm, chunks, jshifts, 1)
                  /\ widemask' = Paste(widemask, bbox, mm')
                  /\ imdata' = SourceAfterRoll(imdata, bbox, imorder')
                  /\ wavdata' = SourceAfterRoll(wavdata, bbox, wavorder')
                  /\ pc' = "mean"
                  /\ err' = err
    /\ UNCHANGED <<log, idx, kinds, bridge, wavmask, labels, nlabels, labelsfile,
                   region, ordermask, ident, bbox, count, rectified, files>>

\* lines 130-132
MeanWavelength ==
    /\ pc = "mean"
    /\ meanwav' = MeanWav(wavorder, m)
    /\ pc' = "trim"
    /\ UNCHANGED <<err, log, idx, globals, masks, ident, cropped, jshifts, jtrim, files>>

\* lines 133-135
TrimRows ==
    /\ pc = "trim"
    /\ imorder' = TrimTop(imorder, jtrim)
    /\ meanwav' = TrimTop(meanwav, jtrim)
    /\ pc' = "writeim"
    /\ UNCHANGED <<err, log, idx, globals, masks, ident, bbox, wavorder, m, mm, count,
                   jshifts, jtrim, files>>

\* lines 137-138
WriteImage ==
    /\ pc = "writeim"
    /\ imfile' = imorder
    /\ imcount' = [imcount EXCEPT ![idx] = @ + 1]
    /\ log' = Append(log, "im")
    /\ pc' = "writewav"
    /\ UNCHANGED <<err, idx, globals, masks, ident, cropped, rectified, wavfile, wavcount>>

\* lines 139-140
WriteWavelength ==
    /\ pc = "writewav"
    /\ wavfile' = meanwav
    /\ wavcount' = [wavcount EXCEPT ![idx] = @ + 1]
    /\ log' = Append(log, "wav")
    /\ pc' = "endorder"
    /\ UNCHANGED <<err, idx, globals, masks, ident, cropped, rectified, imfile, imcount>>

\* line 75, back at the head of the loop.  Every name of the body is bound
\* again before the next order reads it, and the next order writes files of
\* its own: the values of the order just done are dropped here.
LoopBack ==
    /\ pc = "endorder"
    /\ idx' = idx + 1
    /\ region' = NoRegion /\ ordermask' = NoArr /\ widemask' = NoArr
    /\ msg1' = "" /\ msg2' = "" /\ label' = 0 /\ iorder' = 0
    /\ bbox' = NoBox /\ imorder' = NoArr /\ wavorder' = NoArr
    /\ m' = NoArr /\ mm' = NoArr /\ count' = 0
    /\ jshifts' = <<>> /\ jtrim' = 0 /\ meanwav' = NoArr
    /\ imfile' = NoArr /\ wavfile' = NoArr
    /\ pc' = "loop"
    /\ UNCHANGED <<err, log, globals, imcount, wavcount>>

Next ==
    \/ LabelWavelengths
    \/ WriteLabels
    \/ LoopEnd
    \/ NextOrder
    \/ DiagGeometric
    \/ ResolveIdentity
    \/ DiagLabel
    \/ FindBBox
    \/ CropSources
    \/ ReconcileMasks
    \/ CropMasks
    \/ ComputeShifts
    \/ RollLoop
    \/ MeanWavelength
    \/ TrimRows
    \/ WriteImage
    \/ WriteWavelength
    \/ LoopBack

Spec == Init /\ [][Next]_vars

\* ------------------------------------------------------------------- claims
Rows(b) == b.r1 - b.r0 + 1
Cols(b) == b.c1 - b.c0 + 1
LastToken(text) == text[Len(text)]
InOrder == pc \in {"diag1", "resolve", "diag2", "bbox", "crop", "reconcile",
                   "cropmasks", "shifts", "roll", "mean", "trim", "writeim",
                   "writewav", "endorder", "error"}
NameError == pc = "error" /\ err.line \in {90, 91}
WideOf(r) == dilate_mask(RegionMask(r), WideMargin)

\* C1: the mask built for an order is, pixel by pixel, the wide mask AND
\* (label image == label) when the order index is <= 72, and
\* (label image == label) alone when it is >= 73.
C1_ReconcileByCutoff ==
    pc = "cropmasks" =>
        /\ iorder <= 72 =>
             \A p \in Pix(H, W) : m.v[p] = (widemask.v[p] /\ labels.v[p] = label)
        /\ iorder >= 73 =>
             \A p \in Pix(H, W) : m.v[p] = (labels.v[p] = label)

\* order 72 with a pixel that carries its label outside the wide mask
C1_Witness ==
    /\ pc = "cropmasks"
    /\ iorder = 72
    /\ \E p \in Pix(H, W) : labels.v[p] = label /\ ~widemask.v[p] /\ ~m.v[p]

\* order 73 with a pixel that carries its label outside the wide mask
C1_Above ==
    /\ pc = "cropmasks"
    /\ iorder = 73
    /\ \E p \in Pix(H, W) : labels.v[p] = label /\ ~widemask.v[p] /\ m.v[p]

\* C2: after the rolling loop, for every tilt, each of the four cropped
\* arrays holds at row i, column j what was at row (i + s[j]) mod ny,
\* column j before the loop.
Rolled(after, before) ==
    \A p \in Pix(before.ny, before.nx) :
        after.v[p] = before.v[<<(p[1] + jshifts[p[2]]) % before.ny, p[2]>>]

RolledAll ==
    /\ Rolled(imorder, Crop(imdata, bbox))
    /\ Rolled(wavorder, Crop(wavdata, bbox))
    /\ Rolled(m, Crop(Reconcile(iorder, WideOf(region), labels, label), bbox))
    /\ Rolled(mm, Crop(WideOf(region), bbox))

C2_RolledForEveryTilt == pc = "mean" => RolledAll

\* the same for the tilts that are not negative
C2_RolledForTiltsUp == pc = "mean" /\ region.tan >= 0 => RolledAll

\* C3: when jtrim is 0 no row is trimmed: the written image has all ny rows
\* and is the cropped input, and the written wavelength raster has ny rows.
C3_NoTrimAtZero ==
    pc = "endorder" /\ jtrim = 0 =>
        /\ imfile.ny = Rows(bbox)
        /\ imfile = Crop(imdata, bbox)
        /\ wavfile.ny = Rows(bbox)

\* the same at tilt 0
C3_NoTrimAtTiltZero ==
    pc = "endorder" /\ region.tan = 0 => imfile = Crop(imdata, bbox)

\* C4 as claimed: a name whose last token is no integer fails with the parse
\* error, and the lookup error is raised only for an integer token without
\* an entry in box2label.
C4_ParseErrorForNonInteger ==
    NameError =>
        /\ (Len(region.text) = 0 \/ ~IsIntToken(LastToken(region.text)))
             => err.kind = "ValueError"
        /\ err.kind \in {"KeyError", "IndexError"}
             => /\ Len(region.text) > 0
                /\ IsIntToken(LastToken(region.text))
                /\ LastToken(region.text) \notin DOMAIN box2label

\* C4 as amended: a name whose last token has no entry in box2label fails
\* with KeyError whether or not the token is an integer, a name without a
\* token fails with IndexError, no name fails with the parse error, and
\* only names whose token has an entry get past the resolver.
C4_LookupBeforeParse ==
    /\ NameError =>
         IF Len(region.text) = 0 THEN err.kind = "IndexError"
         ELSE /\ err.kind = "KeyError"
              /\ LastToken(region.text) \notin DOMAIN box2label
    /\ InOrder /\ pc \notin {"diag1", "resolve"} /\ ~NameError =>
         /\ Len(region.text) > 0
         /\ LastToken(region.text) \in DOMAIN box2label
         /\ label = box2label[LastToken(region.text)]
         /\ IsIntToken(LastToken(region.text))
         /\ iorder = IntOf(LastToken(region.text))

\* a token that is no integer has failed with the lookup error
C4_Witness ==
    /\ NameError
    /\ Len(region.text) > 0
    /\ ~IsIntToken(LastToken(region.text))
    /\ err.kind = "KeyError"

\* C5: the run stops in error only at the first order whose name fails, with
\* both rasters of every order before it written once and none for it or
\* after it; a run that ends without error has written both rasters of
\* every order once.
WrittenOnce(k) == imcount[k] = 1 /\ wavcount[k] = 1
NotWritten(k) == imcount[k] = 0 /\ wavcount[k] = 0

C5_AbortOnlyOnNameFailure ==
    /\ pc = "error" =>
         /\ NameError
         /\ \A k \in 0..(MaxOrders - 1) :
              IF k < idx THEN WrittenOnce(k) ELSE NotWritten(k)
    /\ pc = "done" =>
         \A k \in 0..(MaxOrders - 1) :
              IF k < idx THEN WrittenOnce(k) ELSE NotWritten(k)

\* C6: an order whose geometric selection, wide mask or label selection is
\* empty is reported and carried through to its two rasters: apart from a
\* failure of its name, it never ends the run in error.
EmptySelection ==
    \/ msg1 = "novalid"
    \/ msg2 = "novalid"
    \/ SelectedPix(WideOf(region)) = {}

C6_EmptySelectionContinues ==
    pc = "error" /\ ~NameError => ~EmptySelection

\* C7: every row of the mean-wavelength raster holds, in column j, the sum
\* of the rectified wavelengths over the mask-true rows of column j divided
\* by the number of those rows; with no such row the quotient is 0/0,
\* not-a-number, and the run goes on.
RECURSIVE SumRows(_, _, _)
SumRows(T, wav, j) ==
    IF T = {} THEN 0
    ELSE LET i == CHOOSE x \in T : TRUE
         IN  wav.v[<<i, j>>] + SumRows(T \ {i}, wav, j)

TrueRows(mask, j) == {i \in 0..(mask.ny - 1) : mask.v[<<i, j>>]}

C7_ColumnMean ==
    /\ pc = "trim" => meanwav.ny = wavorder.ny /\ meanwav.nx = wavorder.nx
    /\ pc \in {"trim", "writeim", "writewav", "endorder"} =>
         \A p \in DOMAIN meanwav.v :
             meanwav.v[p] = Quot(SumRows(TrueRows(m, p[2]), wavorder, p[2]),
                                 Cardinality(TrueRows(m, p[2])))
    /\ pc = "endorder" => wavfile = meanwav

\* a rectified order with a column of two or more mask-true rows and a
\* mask-false row, and a column without a mask-true row
C7_Witness ==
    /\ pc = "trim"
    /\ jtrim > 0
    /\ \E j \in 0..(m.nx - 1) :
         Cardinality(TrueRows(m, j)) \in 2..(m.ny - 1)
    /\ \E j \in 0..(m.nx - 1) :
         TrueRows(m, j) = {} /\ meanwav.v[<<0, j>>].den = 0

\* C8: with 0 < jtrim < ny both written rasters have ny - jtrim rows and nx
\* columns, and the written image holds at row i, column j the cropped
\* input of row i + s[j], a row below ny: nothing that wrapped around.
C8_TrimRemovesWrap ==
    pc = "endorder" /\ 0 < jtrim /\ jtrim < Rows(bbox) =>
        /\ imfile.ny = Rows(bbox) - jtrim /\ imfile.nx = Cols(bbox)
        /\ wavfile.ny = Rows(bbox) - jtrim /\ wavfile.nx = Cols(bbox)
        /\ \A p \in Pix(imfile.ny, imfile.nx) :
             /\ p[1] + jshifts[p[2]] < Rows(bbox)
             /\ imfile.v[p] =
                  imdata.v[<<bbox.r0 + p[1] + jshifts[p[2]], bbox.c0 + p[2]>>]

C8_Witness ==
    /\ pc = "endorder"
    /\ 0 < jtrim /\ jtrim < Rows(bbox)
    /\ \E j \in DOMAIN jshifts : 0 < jshifts[j] /\ jshifts[j] < jtrim

\* C9: the label image is written once, first of all that the run prints or
\* writes for the orders, also in a run that an order aborts; each order
\* then gives, in this order, its geometric diagnostic, its label lookup,
\* its label diagnostic, its pixel count, its image and its wavelengths.
OrderEvents == <<"diag1", "lookup", "diag2", "count", "im", "wav">>
EventAt(n) ==
    IF n = 1 THEN "labels" ELSE OrderEvents[((n - 2) % Len(OrderEvents)) + 1]

C9_LabelsFirstThenOrders ==
    /\ \A n \in 1..Len(log) : log[n] = EventAt(n)
    /\ pc \in {"label", "savelabels"} => log = <<>>
    /\ pc \notin {"label", "savelabels"} => Len(log) >= 1 /\ labelsfile = labels

\* an order has aborted the run after another was written
C9_Witness ==
    /\ pc = "error"
    /\ idx >= 1
    /\ labelsfile = labels /\ log[1] = "labels"
    /\ Len(log) > 1 + Len(OrderEvents)

\* C10: the loaded image, the loaded wavelengths, the validity mask and the
\* label image stay as they were, and the two rasters written for an order
\* are those its box gives on the loaded rasters, whatever was done before.
ExpectedImage(r) ==
    LET bb == FindMaskObjects(WideOf(r))[1]
        im == Crop(ImageRaster, bb)
        js == ColumnShifts(im.nx, r.tan)
    IN  TrimTop(RollChunks(im, FindShiftObjects(js), js, 1), ShiftMax(js))

ExpectedWav(r, res) ==
    LET wide == WideOf(r)
        bb == FindMaskObjects(wide)[1]
        wav == Crop(WavRaster(kinds, bridge), bb)
        js == ColumnShifts(wav.nx, r.tan)
        mask == Crop(Reconcile(res.iorder, wide, labels, res.label), bb)
    IN  TrimTop(MeanWav(RollChunks(wav, FindShiftObjects(js), js, 1),
                        RollChunks(mask, FindShiftObjects(js), js, 1)),
                ShiftMax(js))

SourcesKept ==
    /\ imdata = ImageRaster
    /\ wavdata = WavRaster(kinds, bridge)
    /\ pc = "endorder" =>
         /\ imfile = ExpectedImage(region)
         /\ wavfile = ExpectedWav(region, ResolveOrder(region.text))

LabelsKept == pc # "label" => wavmask' = wavmask /\ labels' = labels

C10_SourcesUntouched == []SourcesKept /\ [][LabelsKept]_vars

\* a second order written after the rolls of the first, itself rolled
C10_Witness ==
    /\ pc = "endorder"
    /\ idx >= 1
    /\ jtrim > 0

====
